---- MODULE Spec2Model ----
(***************************************************************************)
(* Model of the Linux evdev driver of beep (beep-driver-evdev.c): one      *)
(* beep_driver instance (driver_data), the process's descriptor table, and *)
(* the five callbacks driver_detect, driver_init, driver_fini,             *)
(* driver_begin_tone and driver_end_tone.                                  *)
(***************************************************************************)
EXTENDS Integers, FiniteSets, Sequences, TLC

VARIABLES
    driver,       \* the beep_driver instance: device_fd, device_name, device_flags
    open_fds,     \* descriptors currently open in the process
    pcspkr,       \* the device node the default path resolves to on this machine
    accepted,     \* last input_event accepted in full through the handle now in
                  \* device_fd (NoEvent if none since it was opened)
    pc,           \* "running", or "exited" once safe_error_exit was called
    detected,     \* the last driver_detect since creation/driver_fini returned true
    tone_freq,    \* frequency of the latest driver_begin_tone since detection (-1: none)
    phase,        \* "created"; "open" from a detect whose open succeeded to the next
                  \* driver_fini; "closed" from a driver_fini to the next such detect
    ever_detected,\* some driver_detect on this instance has returned true
    owned,        \* descriptors opened by this instance's driver_detect, still open
    stored,       \* those of owned that driver_detect stored in device_fd
    last          \* what the most recent callback did (call record)

vars == <<driver, open_fds, pcspkr, accepted, pc, detected, tone_freq,
          phase, ever_detected, owned, stored, last>>

----------------------------------------------------------------------------
(* Bounds *)

\* Highest descriptor number the process may have open (RLIMIT_NOFILE - 1).
MaxFd == 4

\* Frequencies handed to driver_begin_tone (uint16_t): both ends of the
\* range and values in between.
Freqs == {0, 440, 65535}

----------------------------------------------------------------------------
(* Platform constants (linux/input.h) and the source's own constants *)

EV_SND == 18
SND_BELL == 1
SND_TONE == 2
InputEventSize == 24

SND_API_TONE == 0
SND_API_BELL == 1

NULL == "NULL"
NotOpen == 0 - 1

default_name == "/dev/input/by-path/platform-pcspkr-event-spkr"

----------------------------------------------------------------------------
(* The machine: device nodes and what the kernel answers for each.         *)
(*   chr   the path exists and is a character device that can be opened    *)
(*   snd   ioctl EVIOCGSND(0) succeeds on it                               *)
(*   gbit  ioctl EVIOCGBIT(EV_SND, ...) succeeds on it                     *)
(*   evbit the bitmask EVIOCGBIT stores (bit SND_BELL, bit SND_TONE, ...)  *)

Node(chr, snd, gbit, evbit) ==
    [chr |-> chr, snd |-> snd, gbit |-> gbit, evbit |-> evbit]

NodePaths ==
    { "/nonexistent", "/etc/passwd", "/dev/null", "/dev/input/nogbit",
      "/dev/input/click", "/dev/input/bell", "/dev/input/tone",
      "/dev/input/pcspkr" }

\* What the default path may resolve to: no PC speaker, or the PC speaker.
DefaultTargets == { "/nonexistent", "/dev/input/pcspkr" }

NodeOf(path) ==
    CASE path = "/nonexistent"       -> Node(FALSE, FALSE, FALSE, 0)
      [] path = "/etc/passwd"        -> Node(FALSE, FALSE, FALSE, 0)
      [] path = "/dev/null"          -> Node(TRUE, FALSE, FALSE, 0)
      [] path = "/dev/input/nogbit"  -> Node(TRUE, TRUE, FALSE, 6)
      [] path = "/dev/input/click"   -> Node(TRUE, TRUE, TRUE, 1)  \* SND_CLICK only
      [] path = "/dev/input/bell"    -> Node(TRUE, TRUE, TRUE, 3)  \* click, bell
      [] path = "/dev/input/tone"    -> Node(TRUE, TRUE, TRUE, 4)  \* tone
      [] path = "/dev/input/pcspkr"  -> Node(TRUE, TRUE, TRUE, 6)  \* bell, tone

\* The default path is an alias (by-path symlink) for a node of the machine.
Resolve(path, target) == IF path = default_name THEN NodeOf(target) ELSE NodeOf(path)

\* evbit & (1 << bit)
BitSet(evbit, bit) == (evbit \div (2 ^ bit)) % 2 = 1

----------------------------------------------------------------------------
(* Descriptor table *)

Fds == 0 .. MaxFd

HasFree(fds) == \E n \in Fds : n \notin fds

\* open(2) returns the lowest descriptor number not in use.
LowestFree(fds) == CHOOSE n \in Fds : n \notin fds /\ \A m \in 0 .. (n - 1) : m \in fds

\* open_checked_char_device (beep-library): an open descriptor of a
\* character device, or -1 with nothing left open.
open_checked_char_device(node, fds) ==
    IF node.chr /\ HasFree(fds) THEN LowestFree(fds) ELSE NotOpen

\* open_checked_device: result, descriptors opened by the call, table after.
open_checked_device(node, fds) ==
    LET fd == open_checked_char_device(node, fds) IN
    IF fd = NotOpen
    THEN [fd |-> NotOpen, opened |-> {}, fds |-> fds, stage |-> "chardev"]
    ELSE IF ~node.snd
    THEN [fd |-> NotOpen, opened |-> {fd}, fds |-> fds \cup {fd}, stage |-> "sndclass"]
    ELSE [fd |-> fd, opened |-> {fd}, fds |-> fds \cup {fd}, stage |-> "open"]

----------------------------------------------------------------------------
(* driver_detect *)

\* Variant of locate that falls back to the default path when the
\* candidate cannot be opened.
locate_fallback(d, console_device, target, fds) ==
    LET name == IF console_device # NULL THEN console_device ELSE default_name
        o    == open_checked_device(Resolve(name, target), fds)
        o2   == open_checked_device(Resolve(default_name, target), o.fds)
    IN  IF o.fd >= 0
        THEN [driver |-> [d EXCEPT !.device_fd = o.fd, !.device_name = name],
              device_open |-> TRUE, name |-> name, tried |-> <<name>>,
              opened |-> o.opened, fds |-> o.fds, stage |-> o.stage]
        ELSE IF console_device = NULL
        THEN [driver |-> d, device_open |-> FALSE, name |-> name, tried |-> <<name>>,
              opened |-> o.opened, fds |-> o.fds, stage |-> o.stage]
        ELSE IF o2.fd >= 0
        THEN [driver |-> [d EXCEPT !.device_fd = o2.fd, !.device_name = default_name],
              device_open |-> TRUE, name |-> default_name,
              tried |-> <<name, default_name>>,
              opened |-> o.opened \cup o2.opened, fds |-> o2.fds, stage |-> o2.stage]
        ELSE [driver |-> d, device_open |-> FALSE, name |-> default_name,
              tried |-> <<name, default_name>>,
              opened |-> o.opened \cup o2.opened, fds |-> o2.fds, stage |-> o2.stage]

\* Variant of locate that stores the name before it knows the open worked.
locate_name_first(d, console_device, target, fds) ==
    LET name == IF console_device # NULL THEN console_device ELSE default_name
        o    == open_checked_device(Resolve(name, target), fds)
    IN  IF o.fd >= 0
        THEN [driver |-> [d EXCEPT !.device_fd = o.fd, !.device_name = name],
              device_open |-> TRUE, name |-> name, tried |-> <<name>>,
              opened |-> o.opened, fds |-> o.fds, stage |-> o.stage]
        ELSE [driver |-> [d EXCEPT !.device_name = name],
              device_open |-> FALSE, name |-> name, tried |-> <<name>>,
              opened |-> o.opened, fds |-> o.fds, stage |-> o.stage]

\* Lines 89-115: choose the path, open it, store handle and name.
locate(d, console_device, target, fds) ==
    LET name == IF console_device # NULL THEN console_device ELSE default_name
        o    == open_checked_device(Resolve(name, target), fds)
    IN  IF o.fd >= 0
        THEN [driver |-> [d EXCEPT !.device_fd = o.fd, !.device_name = name],
              device_open |-> TRUE, name |-> name, tried |-> <<name>>,
              opened |-> o.opened, fds |-> o.fds, stage |-> o.stage]
        ELSE [driver |-> d, device_open |-> FALSE, name |-> name, tried |-> <<name>>,
              opened |-> o.opened, fds |-> o.fds, stage |-> o.stage]

\* Variant of snd_api_select that tests the bell bit first.
snd_api_select_bell_first(evbit) ==
    IF BitSet(evbit, SND_BELL) THEN SND_API_BELL
    ELSE IF BitSet(evbit, SND_TONE) THEN SND_API_TONE
    ELSE 0 - 1

\* Lines 125-138: the protocol for a code bitmask, -1 for neither.
snd_api_select(evbit) ==
    IF BitSet(evbit, SND_TONE) THEN SND_API_TONE
    ELSE IF BitSet(evbit, SND_BELL) THEN SND_API_BELL
    ELSE 0 - 1

\* Variant of probe that falls back to the bell protocol when neither bit
\* is set.
probe_bell_fallback(d, node) ==
    IF ~node.gbit
    THEN [driver |-> d, ret |-> FALSE, stage |-> "gbit"]
    ELSE LET snd_api == snd_api_select(node.evbit) IN
         IF snd_api < 0
         THEN [driver |-> [d EXCEPT !.device_flags = SND_API_BELL],
               ret |-> TRUE, stage |-> "neither"]
         ELSE [driver |-> [d EXCEPT !.device_flags = snd_api],
               ret |-> TRUE, stage |-> "ok"]

\* Variant of probe that forgets the handle when the bitmask query fails.
probe_drop_handle(d, node) ==
    IF ~node.gbit
    THEN [driver |-> [d EXCEPT !.device_fd = 0 - 1], ret |-> FALSE, stage |-> "gbit"]
    ELSE LET snd_api == snd_api_select(node.evbit) IN
         IF snd_api < 0
         THEN [driver |-> d, ret |-> FALSE, stage |-> "neither"]
         ELSE [driver |-> [d EXCEPT !.device_flags = snd_api],
               ret |-> TRUE, stage |-> "ok"]

\* Lines 117-141: query the code bitmask and select the protocol.
probe(d, node) ==
    IF ~node.gbit
    THEN [driver |-> d, ret |-> FALSE, stage |-> "gbit"]
    ELSE LET snd_api == snd_api_select(node.evbit) IN
         IF snd_api < 0
         THEN [driver |-> d, ret |-> FALSE, stage |-> "neither"]
         ELSE [driver |-> [d EXCEPT !.device_flags = snd_api],
               ret |-> TRUE, stage |-> "ok"]

----------------------------------------------------------------------------
(* Tone emitter *)

input_event(type, code, value) ==
    [time |-> 0, type |-> type, code |-> code, value |-> value]

NoEvent == input_event(0, 0, 0 - 1)

\* Variant of begin_event that stores the frequency as a signed 16-bit value.
begin_event_signed(device_flags, freq) ==
    CASE device_flags = SND_API_TONE ->
             input_event(EV_SND, SND_TONE, IF freq >= 32768 THEN freq - 65536 ELSE freq)
      [] device_flags = SND_API_BELL -> input_event(EV_SND, SND_BELL, 1)
      [] OTHER                       -> input_event(EV_SND, 0, 0)

\* Variant of begin_event that passes the frequency as the bell value.
begin_event_bell_freq(device_flags, freq) ==
    CASE device_flags = SND_API_TONE -> input_event(EV_SND, SND_TONE, freq)
      [] device_flags = SND_API_BELL -> input_event(EV_SND, SND_BELL, freq)
      [] OTHER                       -> input_event(EV_SND, 0, 0)

\* Lines 166-179: the record driver_begin_tone builds.
begin_event(device_flags, freq) ==
    CASE device_flags = SND_API_TONE -> input_event(EV_SND, SND_TONE, freq)
      [] device_flags = SND_API_BELL -> input_event(EV_SND, SND_BELL, 1)
      [] OTHER                       -> input_event(EV_SND, 0, 0)

\* Variant of end_event whose tone case carries the begin value (0 == 0).
end_event_tone_on(device_flags) ==
    CASE device_flags = SND_API_TONE -> input_event(EV_SND, SND_TONE, 1)
      [] device_flags = SND_API_BELL -> input_event(EV_SND, SND_BELL, 0)
      [] OTHER                       -> input_event(EV_SND, 0, 0)

\* Variant of end_event whose bell case was copied from the tone case
\* with the code left as it was.
end_event_bell_tone_code(device_flags) ==
    CASE device_flags = SND_API_TONE -> input_event(EV_SND, SND_TONE, 0)
      [] device_flags = SND_API_BELL -> input_event(EV_SND, SND_TONE, 0)
      [] OTHER                       -> input_event(EV_SND, 0, 0)

\* Lines 193-206: the record driver_end_tone builds.
end_event(device_flags) ==
    CASE device_flags = SND_API_TONE -> input_event(EV_SND, SND_TONE, 0)
      [] device_flags = SND_API_BELL -> input_event(EV_SND, SND_BELL, 0)
      [] OTHER                       -> input_event(EV_SND, 0, 0)

\* write(2) on fd: EBADF for a descriptor that is not open; otherwise the
\* kernel may fail, write short, or take the whole record.
WriteReturns(fd, fds) ==
    IF fd \in fds THEN {0 - 1, 0, 8, InputEventSize} ELSE {0 - 1}

\* Variant of write_ok that accepts any write that made progress.
write_ok_any_progress(n) == n > 0

\* Variant of write_ok that only treats the error return as a failure.
write_ok_errors_only(n) == n # 0 - 1

\* Lines 181 and 208: sizeof(e) != write(...) is the failure test.
write_ok(n) == n = InputEventSize

\* safe_error_exit (beep-library): terminates the process, does not return.
safe_error_exit == "exited"

----------------------------------------------------------------------------
(* Call records: what a callback was given, did and returned.              *)
(*   stage   where driver_detect ended: "chardev", "sndclass", "gbit",     *)
(*           "neither" or "ok" ("none" for the other callbacks)             *)
(*   opened  descriptors the call opened;  closed  the argument of close() *)
(*   writes  the write() calls made: descriptor and record;  wret its      *)
(*           return value;  evbit the bitmask EVIOCGBIT returned           *)
(*   tried   the paths driver_detect handed to open_checked_device         *)
(*   pre_detected  for the tone callbacks and driver_fini: detected held    *)
(*           when the call was made                                        *)
(*   pre_phase, after  for driver_fini: the phase when it was called and   *)
(*           the stage of the call before it                               *)

Call(op, path, freq, ret, stage, opened, closed, writes, wret, evbit, tried) ==
    [op |-> op, path |-> path, freq |-> freq, ret |-> ret, stage |-> stage,
     opened |-> opened, closed |-> closed, writes |-> writes,
     wret |-> wret, evbit |-> evbit, tried |-> tried,
     pre_detected |-> (op \in {"begin_tone", "end_tone", "fini"} /\ detected),
     pre_phase |-> IF op = "fini" THEN phase ELSE "none",
     after |-> IF op = "fini" THEN last.stage ELSE "none"]

NoCall ==
    [op |-> "none", path |-> NULL, freq |-> 0 - 1, ret |-> "void", stage |-> "none",
     opened |-> {}, closed |-> 0 - 1, writes |-> <<>>,
     wret |-> 0, evbit |-> 0, tried |-> <<>>,
     pre_detected |-> FALSE, pre_phase |-> "none", after |-> "none"]

----------------------------------------------------------------------------
(* Initial state: the static initializer of driver_data (lines 214-227),   *)
(* in a process with stdin, stdout and stderr open.                        *)

driver_data == [device_fd |-> 0, device_name |-> NULL, device_flags |-> 0]

Init ==
    /\ driver = driver_data
    /\ open_fds = {0, 1, 2}
    /\ pcspkr \in DefaultTargets
    /\ accepted = NoEvent
    /\ pc = "running"
    /\ detected = FALSE
    /\ tone_freq = 0 - 1
    /\ phase = "created"
    /\ ever_detected = FALSE
    /\ owned = {}
    /\ stored = {}
    /\ last = NoCall

----------------------------------------------------------------------------
(* Callbacks *)

driver_detect(console_device) ==
    /\ pc = "running"
    /\ LET l    == locate(driver, console_device, pcspkr, open_fds)
           node == Resolve(l.name, pcspkr)
           p    == probe(l.driver, node)
       IN  IF ~l.device_open
           THEN /\ driver' = l.driver
                /\ open_fds' = l.fds
                /\ detected' = FALSE
                /\ UNCHANGED <<phase, ever_detected, stored>>
                /\ last' = Call("detect", console_device, 0 - 1, "false", l.stage,
                                l.opened, 0 - 1, <<>>, 0, 0, l.tried)
           ELSE /\ driver' = p.driver
                /\ open_fds' = l.fds
                /\ detected' = p.ret
                /\ phase' = "open"
                /\ ever_detected' = (ever_detected \/ p.ret)
                /\ stored' = stored \cup {l.driver.device_fd}
                /\ last' = Call("detect", console_device, 0 - 1,
                                IF p.ret THEN "true" ELSE "false", p.stage,
                                l.opened, 0 - 1, <<>>, 0,
                                IF node.gbit THEN node.evbit ELSE 0, l.tried)
    /\ owned' = owned \cup (open_fds' \ open_fds)
    /\ tone_freq' = 0 - 1
    /\ accepted' = IF driver'.device_fd \in open_fds' \ open_fds THEN NoEvent ELSE accepted
    /\ UNCHANGED <<pcspkr, pc>>

driver_init ==
    /\ pc = "running"
    /\ last' = Call("init", NULL, 0 - 1, "void", "none", {}, 0 - 1, <<>>, 0, 0, <<>>)
    /\ UNCHANGED <<driver, open_fds, pcspkr, accepted, pc, detected, tone_freq,
                   phase, ever_detected, owned, stored>>

\* Variant of fini that resets the whole instance to its initial values.
fini_clear_all(d, fds) ==
    [driver |-> [device_fd |-> NotOpen, device_name |-> NULL, device_flags |-> 0],
     fds |-> fds \ {d.device_fd},
     closed |-> d.device_fd]

\* Variant of fini that closes the handle but keeps its number.
fini_no_reset(d, fds) ==
    [driver |-> d, fds |-> fds \ {d.device_fd}, closed |-> d.device_fd]

\* Lines 152-158: close the handle, then reset it.
fini(d, fds) ==
    [driver |-> [d EXCEPT !.device_fd = NotOpen],
     fds |-> fds \ {d.device_fd},
     closed |-> d.device_fd]

driver_fini ==
    /\ pc = "running"
    /\ LET f == fini(driver, open_fds) IN
       /\ driver' = f.driver
       /\ open_fds' = f.fds
       /\ owned' = owned \cap f.fds
       /\ stored' = stored \cap f.fds
       /\ last' = Call("fini", NULL, 0 - 1, "void", "none", {}, f.closed, <<>>, 0, 0, <<>>)
    /\ detected' = FALSE
    /\ phase' = "closed"
    /\ UNCHANGED <<pcspkr, accepted, pc, tone_freq, ever_detected>>

\* Lines 181-184 and 208-210: one write of the record, fatal unless complete.
emit(op, freq, e) ==
    \E n \in WriteReturns(driver.device_fd, open_fds) :
        /\ accepted' = IF n = InputEventSize THEN e ELSE accepted
        /\ pc' = IF write_ok(n) THEN pc ELSE safe_error_exit
        /\ last' = Call(op, NULL, freq, IF write_ok(n) THEN "void" ELSE "fatal",
                        "none", {}, 0 - 1, <<[fd |-> driver.device_fd, e |-> e]>>, n, 0, <<>>)
        /\ tone_freq' = IF op = "begin_tone" THEN freq ELSE tone_freq
        /\ UNCHANGED <<driver, open_fds, pcspkr, detected,
                       phase, ever_detected, owned, stored>>

driver_begin_tone(freq) ==
    /\ pc = "running"
    /\ emit("begin_tone", freq, begin_event(driver.device_flags, freq))

driver_end_tone ==
    /\ pc = "running"
    /\ emit("end_tone", 0 - 1, end_event(driver.device_flags))

Next ==
    \/ \E console_device \in NodePaths \cup {NULL} : driver_detect(console_device)
    \/ driver_init
    \/ driver_fini
    \/ \E freq \in Freqs : driver_begin_tone(freq)
    \/ driver_end_tone

Spec == Init /\ [][Next]_vars

----------------------------------------------------------------------------
(* Properties *)

ToneOps == {"begin_tone", "end_tone"}

\* The tone callbacks made exactly one write, on the instance's handle.
OneWrite == Len(last.writes) = 1 /\ last.writes[1].fd = driver.device_fd

\* C1: under the tone protocol driver_begin_tone(f) makes exactly one write
\* to the device handle, of a record with code SND_TONE and value f
\* unmodified, for every f including 0.
C1_BeginToneWritesFrequency ==
    (last.op = "begin_tone" /\ driver.device_flags = SND_API_TONE) =>
        /\ OneWrite
        /\ last.writes[1].e.code = SND_TONE
        /\ last.writes[1].e.value = last.freq

C1_Witness ==
    /\ last.op = "begin_tone" /\ last.pre_detected
    /\ driver.device_flags = SND_API_TONE
    /\ last.freq = 0 /\ last.wret = InputEventSize
    /\ accepted.code = SND_TONE /\ accepted.value = 0

\* C2: under the tone protocol driver_end_tone writes a record with code
\* SND_TONE and value 0, whatever frequency earlier driver_begin_tone calls
\* were given.
C2_EndToneWritesZero ==
    (last.op = "end_tone" /\ driver.device_flags = SND_API_TONE) =>
        /\ OneWrite
        /\ last.writes[1].e.code = SND_TONE
        /\ last.writes[1].e.value = 0

C2_Witness ==
    /\ last.op = "end_tone" /\ last.pre_detected
    /\ driver.device_flags = SND_API_TONE
    /\ tone_freq = 440 /\ last.wret = InputEventSize
    /\ accepted.value = 0

\* C3: under the bell protocol driver_begin_tone(f) writes code SND_BELL
\* with value 1 for every f (0 included), and driver_end_tone writes code
\* SND_BELL with value 0.
C3_BellIgnoresFrequency ==
    (last.op \in ToneOps /\ driver.device_flags = SND_API_BELL) =>
        /\ OneWrite
        /\ last.writes[1].e.code = SND_BELL
        /\ last.writes[1].e.value = (IF last.op = "begin_tone" THEN 1 ELSE 0)

C3_Witness ==
    /\ last.op = "begin_tone" /\ last.pre_detected
    /\ driver.device_flags = SND_API_BELL
    /\ last.freq = 0 /\ last.wret = InputEventSize
    /\ accepted.code = SND_BELL /\ accepted.value = 1

\* C4: when the write in driver_begin_tone or driver_end_tone returns
\* anything but the full record size, the callback does not return: it
\* takes the fatal exit, and no callback runs after that.
C4_ShortWriteIsFatal ==
    [][ /\ pc = "running"
        /\ (last'.op \in ToneOps /\ last'.wret # InputEventSize) =>
               (pc' = "exited" /\ last'.ret = "fatal") ]_vars

C4_Witness ==
    /\ pc = "exited" /\ last.op = "end_tone" /\ last.pre_detected
    /\ last.wret = 8 /\ last.ret = "fatal"

\* C5: driver_detect selects by fixed priority: a bitmask with the tone bit
\* gives the tone protocol whether or not the bell bit is set; the bell
\* protocol is selected only with the bell bit set and the tone bit clear.
C5_TonePriority ==
    (last.op = "detect" /\ last.stage \in {"ok", "neither"}) =>
        /\ BitSet(last.evbit, SND_TONE) =>
               (last.ret = "true" /\ driver.device_flags = SND_API_TONE)
        /\ (last.ret = "true" /\ driver.device_flags = SND_API_BELL) =>
               (BitSet(last.evbit, SND_BELL) /\ ~BitSet(last.evbit, SND_TONE))
        /\ (BitSet(last.evbit, SND_BELL) /\ ~BitSet(last.evbit, SND_TONE)) =>
               (last.ret = "true" /\ driver.device_flags = SND_API_BELL)

C5_Witness ==
    /\ last.op = "detect" /\ last.ret = "true"
    /\ BitSet(last.evbit, SND_TONE) /\ BitSet(last.evbit, SND_BELL)
    /\ driver.device_flags = SND_API_TONE

UnavailableStages == {"chardev", "sndclass"}

\* C6: a driver_detect that fails the character-device check or the
\* sound-event-class check returns failure and leaves device_fd equal to
\* the not-open sentinel -1, also on a freshly created instance.
C6_FailedOpenLeavesNotOpen ==
    (last.op = "detect" /\ last.stage \in UnavailableStages) =>
        (last.ret = "false" /\ driver.device_fd = NotOpen)

\* C7: when detection fails because the device is unavailable, every
\* descriptor opened during the attempt is closed when driver_detect
\* returns, also when only the EVIOCGSND query failed.
C7_NoDescriptorHeldAfterUnavailable ==
    (last.op = "detect" /\ last.stage \in UnavailableStages) =>
        (last.opened \cap open_fds = {})

\* C8: with neither the tone nor the bell bit set driver_detect returns
\* failure and keeps the opened descriptor, open, in device_fd; the
\* driver_fini that follows closes exactly that descriptor and resets
\* device_fd to -1.
C8_NeitherBitKeepsHandleForFini ==
    [][ /\ (last'.op = "detect" /\ last'.stage = "neither") =>
               /\ last'.ret = "false"
               /\ last'.opened = {driver'.device_fd}
               /\ driver'.device_fd \in open_fds'
        /\ (last.op = "detect" /\ last.stage = "neither" /\ last'.op = "fini") =>
               /\ last'.closed = driver.device_fd
               /\ open_fds' = open_fds \ {driver.device_fd}
               /\ driver'.device_fd = NotOpen ]_vars

C8_Witness ==
    /\ last.op = "fini" /\ last.after = "neither"
    /\ last.closed >= 3 /\ last.closed \notin open_fds
    /\ driver.device_fd = NotOpen

\* C9: a failing EVIOCGBIT query ends like a bitmask with neither bit:
\* driver_detect returns ordinary failure without the fatal exit, the
\* opened descriptor stays in device_fd and open, and device_flags is not
\* written.
C9_QueryFailureIsOrdinaryFailure ==
    [][ (last'.op = "detect" /\ last'.stage \in {"gbit", "neither"}) =>
            /\ last'.ret = "false"
            /\ pc' = "running"
            /\ last'.opened = {driver'.device_fd}
            /\ driver'.device_fd \in open_fds'
            /\ driver'.device_flags = driver.device_flags
            /\ detected' = FALSE ]_vars

C9_Witness ==
    /\ last.op = "detect" /\ last.stage = "gbit" /\ last.ret = "false"
    /\ pc = "running"
    /\ driver.device_fd \in last.opened /\ driver.device_fd \in open_fds
    /\ driver.device_flags = SND_API_BELL

\* C10: driver_fini after a successful driver_detect, with or without tones
\* in between, closes the descriptor that detect stored and leaves
\* device_fd at -1.
C10_FiniAfterDetectReleases ==
    [][ /\ (last'.op = "detect" /\ last'.ret = "true") =>
               /\ detected'
               /\ last'.opened = {driver'.device_fd}
               /\ driver'.device_fd \in open_fds'
        /\ (detected /\ last'.op \in ToneOps \cup {"init"}) =>
               (detected' /\ driver' = driver /\ open_fds' = open_fds)
        /\ (detected /\ last'.op = "fini") =>
               /\ last'.closed = driver.device_fd
               /\ driver.device_fd \in open_fds
               /\ open_fds' = open_fds \ {driver.device_fd}
               /\ driver'.device_fd = NotOpen ]_vars

C10_Witness ==
    /\ last.op = "fini" /\ last.pre_detected /\ last.after = "ok"
    /\ tone_freq = 0 - 1
    /\ last.closed >= 3 /\ last.closed \notin open_fds
    /\ driver.device_fd = NotOpen

\* C11: one driver_detect call hands exactly one path to the open: the
\* candidate when one is given (the default is not tried after it fails),
\* else the default path; when the open succeeds device_name is that path.
C11_OnePathNoRetry ==
    (last.op = "detect") =>
        /\ last.tried = << IF last.path # NULL THEN last.path ELSE default_name >>
        /\ Cardinality(last.opened) <= 1
        /\ (last.stage \notin UnavailableStages) =>
               (driver.device_name = last.tried[1] /\ last.opened = {driver.device_fd})

C11_Witness ==
    /\ last.op = "detect" /\ last.path = "/nonexistent"
    /\ pcspkr = "/dev/input/pcspkr"
    /\ last.ret = "false" /\ last.tried = << "/nonexistent" >>
    /\ last.opened = {}

\* C12: when opening or validating the device fails, driver_detect returns
\* failure and device_fd, device_name and device_flags keep the values
\* they had before the call.
C12_FailedOpenLeavesInstance ==
    [][ (last'.op = "detect" /\ last'.stage \in UnavailableStages) =>
            (last'.ret = "false" /\ driver' = driver) ]_vars

C12_Witness ==
    /\ last.op = "detect" /\ last.stage = "sndclass" /\ last.path = "/dev/null"
    /\ driver.device_name = "/dev/input/bell"
    /\ driver.device_flags = SND_API_BELL
    /\ driver.device_fd \in open_fds

\* C13: in every reachable state device_fd refers to an open descriptor
\* exactly while the instance is between a successful open in
\* driver_detect and the next driver_fini, and is -1 otherwise; the
\* instance is created with device_fd = -1.
C13_HandleOpenIffBetweenOpenAndFini ==
    /\ (phase = "open") => (driver.device_fd \in open_fds)
    /\ (phase # "open") => (driver.device_fd = NotOpen)

\* The tone emitter reads device_flags as one of the two protocols.
ProtocolDefined == driver.device_flags \in {SND_API_TONE, SND_API_BELL}

\* C14: in every reachable state the selected protocol is defined if and
\* only if a driver_detect on this instance has returned success; before
\* that the instance carries no value the tone emitter reads as a protocol.
C14_ProtocolDefinedIffDetected == ProtocolDefined <=> ever_detected

\* The event code of a protocol.
ProtocolCode(device_flags) ==
    IF device_flags = SND_API_TONE THEN SND_TONE ELSE SND_BELL

\* C15: on a detected instance driver_end_tone either returns with the
\* last record accepted by the device being a silence record (value 0,
\* code of the selected protocol) or the process took the fatal exit; it
\* never returns while the last accepted event is a sounding one.
C15_EndToneSilencesOrExits ==
    (last.op = "end_tone" /\ last.pre_detected) =>
        \/ /\ last.ret = "void" /\ pc = "running"
           /\ accepted.type = EV_SND
           /\ accepted.code = ProtocolCode(driver.device_flags)
           /\ accepted.value = 0
        \/ /\ last.ret = "fatal" /\ pc = "exited"

C15_Witness ==
    /\ last.op = "end_tone" /\ last.pre_detected /\ last.ret = "void"
    /\ driver.device_flags = SND_API_BELL /\ tone_freq = 65535
    /\ accepted = [time |-> 0, type |-> EV_SND, code |-> SND_BELL, value |-> 0]

C17_ReadOnlyAfterDetect ==
    [][ /\ (last'.op \in ToneOps \cup {"init", "fini"}) =>
               /\ driver'.device_flags = driver.device_flags
               /\ driver'.device_name = driver.device_name
        /\ (last'.op \in ToneOps \cup {"init"}) =>
               (driver'.device_fd = driver.device_fd)
        /\ (last'.op = "detect" /\ last'.ret = "false") =>
               (driver'.device_flags = driver.device_flags) ]_vars

C17_Witness ==
    /\ last.op = "fini" /\ last.pre_detected
    /\ driver.device_flags = SND_API_BELL
    /\ driver.device_name = "/dev/input/bell"
    /\ driver.device_fd = NotOpen

\* C18: over any sequence of driver_detect and driver_fini calls the
\* instance is responsible for at most one open descriptor, and every
\* descriptor it opened that is still open is the one in device_fd.
C18_AtMostOneOwnedDescriptor == owned \subseteq {driver.device_fd}

\* C19: each descriptor a driver_detect stored is released exactly once:
\* the first driver_fini after that detect closes it, and a further
\* driver_fini with no detect in between closes -1 only.
C19_ReleasedExactlyOnce ==
    (last.op = "fini") =>
        /\ stored = {}
        /\ (last.pre_phase = "closed") => (last.closed = NotOpen)

====
